---- MODULE Spec2Model ----
(***************************************************************************)
(* Model of the two pipelines of azure-ai-search-index-export:             *)
(*   export.py  export_search_index_to_json  (pagination / cursor loop)    *)
(*   import.py  import_json_to_search_index  (batching / accounting loop)  *)
(* One behaviour is one call of one of the two functions.  The remote      *)
(* service, the file system and the progress bar are the environment:      *)
(* each of their calls either returns or raises.                           *)
(***************************************************************************)
EXTENDS Integers, Sequences, FiniteSets, TLC

\* ---------------------------------------------------------------- bounds
\* Largest collection (export) or snapshot (import), in records.
MaxDocs == 5
\* Largest value of the export's top argument.
MaxTop == 6
\* Largest batch size of the import.
MaxBatch == 3
\* The page size of export.py line 79 (1000 there), scaled to the model:
\* only its ratio to the collection size and to top enters the loop.
page_size == 2

\* ------------------------------------------------------- python helpers
\* An optional integer: None is <<>>, the integer n is <<n>>.
None == <<>>
Some(n) == <<n>>

\* Mutant of Truthy: the test is "is not None".
Truthy_notNone(opt) == opt # None

\* Python truthiness of an optional integer ("if top:").
Truthy(opt) == opt # None /\ opt[1] # 0

Min(a, b) == IF a < b THEN a ELSE b
Max(a, b) == IF a > b THEN a ELSE b

\* A slice bound normalised as Python does for a sequence of length n.
SliceIndex(x, n) == IF x < 0 THEN Max(x + n, 0) ELSE Min(x, n)

\* Python s[i:j] (0-based, j exclusive, out-of-range bounds clamped).
PySlice(s, i, j) ==
    LET lo == SliceIndex(i, Len(s))
        hi == SliceIndex(j, Len(s))
    IN  IF hi <= lo THEN <<>> ELSE SubSeq(s, lo + 1, hi)

\* The records 1..n in order: record k is the k-th record of the
\* collection (server order) or of the snapshot file.
Records(n) == [k \in 1..n |-> k]

RECURSIVE SumLen(_)
\* Total number of records in a sequence of pages.
SumLen(ps) == IF ps = <<>> THEN 0 ELSE Len(Head(ps)) + SumLen(Tail(ps))

RECURSIVE Concat(_)
\* The sequences of ss joined in order.
Concat(ss) == IF ss = <<>> THEN <<>> ELSE Head(ss) \o Concat(Tail(ss))

\* ---------------------------------------------------------------- state
VARIABLES
    pipeline,          \* "export" or "import": the function that was called
    pc,                \* position in the function
    show_progress,     \* argument show_progress
    pbar,              \* "None" or "tqdm": the local pbar
    pbar_n,            \* the progress bar's counter (tqdm.n)
    total_docs,        \* local total_docs (the progress ceiling)
    result,            \* the return value, None while running
    error,             \* what the outermost except caught, "none" if nothing
    render_failed,     \* history: a progress-bar call has raised
    \* export
    collection,        \* the matching records of the index, in server order
    index_count,       \* what get_count() of the count probe reports
    filter_expression, \* TRUE when a filter argument was given
    select_fields,     \* TRUE when a non-empty select_fields list was given
    top,               \* argument top (optional integer)
    all_docs,          \* local all_docs, the accumulator
    skip,              \* local skip, the cursor
    requests,          \* history: the options of each page request
    pages,             \* history: the pages returned, in order
    short_served,      \* history: a page was shorter than the server could fill
    file_opened,       \* the output file was opened (and truncated) in this run
    snapshot,          \* None, or <<s>> when s was dumped to the output file
    \* import
    input_file,        \* the records in the input file
    batch_size,        \* argument batch_size
    merge_documents,   \* argument merge_documents
    documents,         \* local documents, once loaded
    i,                 \* loop variable i of the batch loop
    uploaded_count,    \* local uploaded_count
    failed_count,      \* local failed_count
    calls              \* history: one entry per upload_documents call

params == <<pipeline, show_progress, collection, index_count,
            filter_expression, select_fields, top, input_file, batch_size,
            merge_documents>>
exportVars == <<all_docs, skip, requests, pages, short_served, file_opened,
                snapshot>>
importVars == <<documents, i, uploaded_count, failed_count, calls>>
vars == <<pipeline, pc, show_progress, pbar, pbar_n, total_docs, result,
          error, render_failed, collection, index_count, filter_expression,
          select_fields, top, all_docs, skip, requests, pages, short_served, file_opened,
          snapshot, input_file, batch_size, merge_documents, documents, i,
          uploaded_count, failed_count, calls>>

\* The arguments top can take: absent, or a count (0 included: --top 0).
TopValues == {None} \cup {Some(n) : n \in 0..MaxTop}

\* The batch sizes --batch-size can pass (type=int): negative, zero, positive.
BatchSizes == (0 - 1)..MaxBatch

\* Locals of both functions before their first statement.
InitLocals ==
    /\ pbar = "None"
    /\ pbar_n = 0
    /\ total_docs = 0
    /\ result = None
    /\ error = "none"
    /\ render_failed = FALSE
    /\ all_docs = <<>>
    /\ skip = 0
    /\ requests = <<>>
    /\ pages = <<>>
    /\ short_served = FALSE
    /\ file_opened = FALSE
    /\ snapshot = None
    /\ documents = <<>>
    /\ i = 0
    /\ uploaded_count = 0
    /\ failed_count = 0
    /\ calls = <<>>

\* A call of export_search_index_to_json on some immutable collection.
InitExport ==
    /\ pipeline = "export"
    /\ pc = "probe"
    /\ show_progress \in BOOLEAN
    /\ \E n \in 0..MaxDocs : collection = Records(n)
    /\ filter_expression \in BOOLEAN
    /\ select_fields \in BOOLEAN
    \* The count probe is sent without the filter: with a filter the index
    \* may hold more documents than match.
    /\ index_count \in
         IF filter_expression
         THEN {Len(collection), Len(collection) + 1} ELSE {Len(collection)}
    /\ top \in TopValues
    /\ input_file = <<>>
    /\ batch_size = 1
    /\ merge_documents = FALSE

\* A call of import_json_to_search_index on some snapshot file.
InitImport ==
    /\ pipeline = "import"
    /\ pc = "load"
    /\ show_progress \in BOOLEAN
    /\ \E n \in 0..MaxDocs : input_file = Records(n)
    /\ batch_size \in BatchSizes
    /\ merge_documents \in BOOLEAN
    /\ collection = <<>>
    /\ index_count = 0
    /\ filter_expression = FALSE
    /\ select_fields = FALSE
    /\ top = None

Init == InitLocals /\ (InitExport \/ InitImport)

\* Mutant of Abort: the outer except returns the count reached so far.
Abort_partial(cause) ==
    /\ pc' = "error"
    /\ error' = cause
    /\ result' = Some(Len(all_docs))

\* Mutant of Abort: no outer except, the exception leaves the function and
\* no value is returned.
Abort_propagating(cause) ==
    /\ pc' = "error"
    /\ error' = cause
    /\ UNCHANGED result

\* ------------------------------------------------- the outermost except
\* "except Exception as e: ... return 0" of either function.
Abort(cause) ==
    /\ pc' = "error"
    /\ error' = cause
    /\ result' = Some(0)

\* --------------------------------------------------------------- export
\* total_docs after lines 54-57.
Ceiling(count, t) == IF Truthy(t) THEN Min(count, t[1]) ELSE count

\* Lines 53-59: the count probe.
ExportCountProbe ==
    /\ pipeline = "export" /\ pc = "probe"
    /\ \/ /\ total_docs' = Ceiling(index_count, top)
          /\ pc' = "progress"
          /\ UNCHANGED <<result, error>>
       \/ /\ Abort("transport")
          /\ UNCHANGED total_docs
    /\ UNCHANGED <<pbar, pbar_n, render_failed>>
    /\ UNCHANGED <<params, exportVars, importVars>>

\* Lines 62-67 (export) and 64-69 (import): pbar = tqdm(total=total_docs).
\* The constructor returns, raises ImportError (caught: pbar stays None), or
\* raises something else (not caught here).
InitProgress(next) ==
    \/ /\ ~show_progress
       /\ pc' = next
       /\ UNCHANGED <<pbar, render_failed, result, error>>
    \/ /\ show_progress
       /\ \/ /\ pbar' = "tqdm"
             /\ pc' = next
             /\ UNCHANGED <<render_failed, result, error>>
          \/ /\ render_failed' = TRUE
             /\ pc' = next
             /\ UNCHANGED <<pbar, result, error>>
          \/ /\ render_failed' = TRUE
             /\ Abort("render")
             /\ UNCHANGED pbar

ExportInitProgress ==
    /\ pipeline = "export" /\ pc = "progress"
    /\ InitProgress("page")
    /\ UNCHANGED <<pbar_n, total_docs>>
    /\ UNCHANGED <<params, exportVars, importVars>>

\* Mutant of RequestOptions: the size requested is capped by top.
RequestOptions_capped(sk) ==
    [skip |-> sk,
     top |-> IF Truthy(top) THEN Min(page_size, top[1]) ELSE page_size,
     select |-> select_fields,
     filter |-> filter_expression,
     include_total_count |-> TRUE]

\* Lines 70-87: search_options as passed to client.search for the cursor
\* sk; select and filter are TRUE when the key is present.
RequestOptions(sk) ==
    [skip |-> sk,
     top |-> page_size,
     select |-> select_fields,
     filter |-> filter_expression,
     include_total_count |-> TRUE]

\* What one search call with this skip and top=page_size can return: a run
\* of the collection starting at skip, at most page_size long.
ServerPages(sk) ==
    {PySlice(collection, sk, sk + n) : n \in 0..page_size}

\* The page a server that fills every page returns.
FullPage(sk) == PySlice(collection, sk, sk + page_size)

\* Mutant of AdvanceSkip: the cursor moves by the size requested.
AdvanceSkip_requested(sk, page_docs) == sk + page_size

\* Line 100: skip += len(page_docs).
AdvanceSkip(sk, page_docs) == sk + Len(page_docs)

\* Mutant of TopReached: the bound must be exceeded, not just reached.
TopReached_strict(t, docs) == Truthy(t) /\ Len(docs) > t[1]

\* Line 109: if top and len(all_docs) >= top.
TopReached(t, docs) == Truthy(t) /\ Len(docs) >= t[1]

\* Mutant of Truncate: the slice keeps one record more than top.
Truncate_oneMore(docs, t) == PySlice(docs, 0, t[1] + 1)

\* Line 110: all_docs[:top].
Truncate(docs, t) == PySlice(docs, 0, t[1])

\* Mutant of EndOfResults: a full page also ends the loop.
EndOfResults_inclusive(page_docs) == Len(page_docs) <= page_size

\* Mutant of EndOfResults: a short page does not end the loop.
EndOfResults_never(page_docs) == FALSE

\* Line 114: len(page_docs) < page_size.
EndOfResults(page_docs) == Len(page_docs) < page_size

\* Lines 87-115: one iteration of the pagination loop.
ExportPage ==
    /\ pipeline = "export" /\ pc = "page"
    /\ requests' = Append(requests, RequestOptions(skip))
    /\ \/ \* client.search or the iteration of its results raises
          /\ Abort("transport")
          /\ UNCHANGED <<all_docs, skip, pages, short_served, pbar_n,
                         render_failed>>
       \/ \E page_docs \in ServerPages(skip) :
          /\ pages' = Append(pages, page_docs)
          /\ short_served' = (short_served \/ page_docs # FullPage(skip))
          /\ IF page_docs = <<>>
             THEN \* line 96-97
                  /\ pc' = "close"
                  /\ UNCHANGED <<all_docs, skip, pbar_n, render_failed,
                                 result, error>>
             ELSE LET extended == all_docs \o page_docs
                  IN  /\ skip' = AdvanceSkip(skip, page_docs)
                      /\ \/ \* lines 103-106 return
                            /\ pbar_n' = IF pbar # "None"
                                         THEN pbar_n + Len(page_docs)
                                         ELSE pbar_n
                            /\ IF TopReached(top, extended)
                               THEN /\ all_docs' = Truncate(extended, top)
                                    /\ pc' = "close"
                               ELSE /\ all_docs' = extended
                                    /\ pc' = IF EndOfResults(page_docs)
                                             THEN "close" ELSE "page"
                            /\ UNCHANGED <<render_failed, result, error>>
                         \/ \* line 104: pbar.update raises
                            /\ pbar # "None"
                            /\ all_docs' = extended
                            /\ render_failed' = TRUE
                            /\ Abort("render")
                            /\ UNCHANGED pbar_n
    /\ UNCHANGED <<pbar, total_docs, file_opened, snapshot>>
    /\ UNCHANGED <<params, importVars>>

\* Lines 117-120 (export) and 100-103 (import): pbar.close().
CloseProgress(next) ==
    \/ /\ pc' = next
       /\ UNCHANGED <<render_failed, result, error>>
    \/ /\ pbar # "None"
       /\ render_failed' = TRUE
       /\ Abort("render")

ExportCloseProgress ==
    /\ pipeline = "export" /\ pc = "close"
    /\ CloseProgress("write")
    /\ UNCHANGED <<pbar, pbar_n, total_docs>>
    /\ UNCHANGED <<params, exportVars, importVars>>

\* Mutant of ExportWrite: the value returned is the cursor, not the length
\* of what was written.
ExportWrite_returnsCursor ==
    /\ pipeline = "export" /\ pc = "write"
    /\ \/ /\ file_opened' = TRUE
          /\ snapshot' = Some(all_docs)
          /\ result' = Some(skip)
          /\ pc' = "returned"
          /\ UNCHANGED error
       \/ /\ Abort("io")
          /\ UNCHANGED <<file_opened, snapshot>>
       \/ /\ file_opened' = TRUE
          /\ Abort("io")
          /\ UNCHANGED snapshot
    /\ UNCHANGED <<pbar, pbar_n, total_docs, render_failed>>
    /\ UNCHANGED <<all_docs, skip, requests, pages, short_served>>
    /\ UNCHANGED <<params, importVars>>

\* Lines 123-127: open the output file, dump all_docs, return the count.
\* open can fail (file untouched); json.dump or the close of the file can
\* fail after the file was opened and truncated.
ExportWrite ==
    /\ pipeline = "export" /\ pc = "write"
    /\ \/ /\ file_opened' = TRUE
          /\ snapshot' = Some(all_docs)
          /\ result' = Some(Len(all_docs))
          /\ pc' = "returned"
          /\ UNCHANGED error
       \/ /\ Abort("io")
          /\ UNCHANGED <<file_opened, snapshot>>
       \/ /\ file_opened' = TRUE
          /\ Abort("io")
          /\ UNCHANGED snapshot
    /\ UNCHANGED <<pbar, pbar_n, total_docs, render_failed>>
    /\ UNCHANGED <<all_docs, skip, requests, pages, short_served>>
    /\ UNCHANGED <<params, importVars>>

ExportNext ==
    \/ ExportCountProbe
    \/ ExportInitProgress
    \/ ExportPage
    \/ ExportCloseProgress
    \/ ExportWrite

\* --------------------------------------------------------------- import
\* Mutant of ImportLoad: no early return for an empty snapshot.
ImportLoad_noEarlyReturn ==
    /\ pipeline = "import" /\ pc = "load"
    /\ \/ /\ Abort("io")
          /\ UNCHANGED <<documents, total_docs>>
       \/ /\ documents' = input_file
          /\ total_docs' = Len(input_file)
          /\ pc' = "progress"
          /\ UNCHANGED <<result, error>>
    /\ UNCHANGED <<pbar, pbar_n, render_failed>>
    /\ UNCHANGED <<i, uploaded_count, failed_count, calls>>
    /\ UNCHANGED <<params, exportVars>>

\* Lines 53-61: load the snapshot; an empty one returns 0 at once.
ImportLoad ==
    /\ pipeline = "import" /\ pc = "load"
    /\ \/ \* open or json.load raises
          /\ Abort("io")
          /\ UNCHANGED <<documents, total_docs>>
       \/ /\ documents' = input_file
          /\ IF input_file = <<>>
             THEN /\ pc' = "returned"
                  /\ result' = Some(0)
                  /\ UNCHANGED <<total_docs, error>>
             ELSE /\ total_docs' = Len(input_file)
                  /\ pc' = "progress"
                  /\ UNCHANGED <<result, error>>
    /\ UNCHANGED <<pbar, pbar_n, render_failed>>
    /\ UNCHANGED <<i, uploaded_count, failed_count, calls>>
    /\ UNCHANGED <<params, exportVars>>

ImportInitProgress ==
    /\ pipeline = "import" /\ pc = "progress"
    /\ InitProgress("range")
    /\ UNCHANGED <<pbar_n, total_docs>>
    /\ UNCHANGED <<params, exportVars, importVars>>

\* Mutant of InRange: the sign of the step is ignored.
InRange_ignoresSign(idx, stop, step) == idx < stop

\* Whether idx is produced by range(start, stop, step), step # 0, given
\* that idx = start + k*step.
InRange(idx, stop, step) == IF step > 0 THEN idx < stop ELSE idx > stop

\* Lines 72-76: the counters and range(0, total_docs, batch_size), which
\* raises ValueError when batch_size is 0.
ImportRange ==
    /\ pipeline = "import" /\ pc = "range"
    /\ IF batch_size = 0
       THEN /\ Abort("value")
            /\ UNCHANGED i
       ELSE /\ i' = 0
            /\ pc' = IF InRange(0, total_docs, batch_size)
                     THEN "batch" ELSE "close"
            /\ UNCHANGED <<result, error>>
    /\ uploaded_count' = 0
    /\ failed_count' = 0
    /\ UNCHANGED <<pbar, pbar_n, total_docs, render_failed>>
    /\ UNCHANGED <<documents, calls>>
    /\ UNCHANGED <<params, exportVars>>

\* Mutant of Chunk: the slice runs one record into the next chunk.
Chunk_overlapping(docs, idx, size) == PySlice(docs, idx, idx + size + 1)

\* Line 77: documents[i:i + batch_size].
Chunk(docs, idx, size) == PySlice(docs, idx, idx + size)

\* Line 80.
UploadMode(merge) == IF merge THEN "mergeOrUpload" ELSE "upload"

\* Line 84: sum(1 for r in results if r.succeeded).
SuccessCount(results) == Cardinality({k \in 1..Len(results) : results[k]})

\* Line 85: len(results) - success_count.
FailCount(results) == Len(results) - SuccessCount(results)

\* Mutant of CountBatchFailed: a batch whose call raised is skipped.
CountBatchFailed_skipped(failed, batch) == failed

\* Line 98: failed_count += len(batch).
CountBatchFailed(failed, batch) == failed + Len(batch)

\* What upload_documents can return for a batch: one outcome per record,
\* aligned to the batch.
UploadResults(batch) == [1..Len(batch) -> BOOLEAN]

\* Lines 77-98 and the step of the for loop: one batch.
ImportBatch ==
    /\ pipeline = "import" /\ pc = "batch"
    /\ LET batch == Chunk(documents, i, batch_size)
           mode  == UploadMode(merge_documents)
           entry(outcome, results) ==
               [batch |-> batch, mode |-> mode, start |-> i,
                outcome |-> outcome, results |-> results,
                d_uploaded |-> uploaded_count' - uploaded_count,
                d_failed |-> failed_count' - failed_count]
       IN  \/ \* line 81 raises: lines 96-98
              /\ failed_count' = CountBatchFailed(failed_count, batch)
              /\ UNCHANGED <<uploaded_count, pbar_n, render_failed>>
              /\ calls' = Append(calls, entry("transport", <<>>))
           \/ \E results \in UploadResults(batch) :
              LET counted_up   == uploaded_count + SuccessCount(results)
                  counted_fail == failed_count + FailCount(results)
              IN  /\ uploaded_count' = counted_up
                  /\ \/ \* lines 91-94 return
                        /\ failed_count' = counted_fail
                        /\ pbar_n' = IF pbar # "None"
                                     THEN pbar_n + Len(batch) ELSE pbar_n
                        /\ calls' = Append(calls, entry("ok", results))
                        /\ UNCHANGED render_failed
                     \/ \* line 92: pbar.update raises, caught at line 96
                        /\ pbar # "None"
                        /\ failed_count' =
                               CountBatchFailed(counted_fail, batch)
                        /\ render_failed' = TRUE
                        /\ calls' = Append(calls, entry("render", results))
                        /\ UNCHANGED pbar_n
    /\ i' = i + batch_size
    /\ pc' = IF InRange(i + batch_size, total_docs, batch_size)
             THEN "batch" ELSE "close"
    /\ UNCHANGED <<pbar, total_docs, result, error, documents>>
    /\ UNCHANGED <<params, exportVars>>

ImportCloseProgress ==
    /\ pipeline = "import" /\ pc = "close"
    /\ CloseProgress("report")
    /\ UNCHANGED <<pbar, pbar_n, total_docs>>
    /\ UNCHANGED <<params, exportVars, importVars>>

\* Lines 105-109: the summary and "return uploaded_count".
ImportReturn ==
    /\ pipeline = "import" /\ pc = "report"
    /\ result' = Some(uploaded_count)
    /\ pc' = "returned"
    /\ UNCHANGED <<pbar, pbar_n, total_docs, error, render_failed>>
    /\ UNCHANGED <<params, exportVars, importVars>>

ImportNext ==
    \/ ImportLoad
    \/ ImportInitProgress
    \/ ImportRange
    \/ ImportBatch
    \/ ImportCloseProgress
    \/ ImportReturn

Next == ExportNext \/ ImportNext

Spec == Init /\ [][Next]_vars

\* The functions are sequential and every call they make returns or
\* raises: a function that has not ended takes its next step.
SpecFair == Spec /\ WF_vars(Next)

\* ------------------------------------------------------------ properties
\* The function has returned, by a return statement or the outer except.
Ended == pc \in {"returned", "error"}

\* The batch loop of the import has run to its end.
BatchLoopDone == pipeline = "import" /\ pc \in {"close", "report", "returned"}

\* The pagination loop of the export has run to its end.
PageLoopDone == pipeline = "export" /\ pc \in {"close", "write", "returned"}

\* ceil(s / b) for b > 0.
Ceil(s, b) == (s + b - 1) \div b

\* The first n records of a sequence holding at least n.
FirstN(s, n) == SubSeq(s, 1, n)

RECURSIVE Batches(_)
\* The batches of a sequence of upload calls, in call order.
Batches(cs) == IF cs = <<>> THEN <<>> ELSE <<Head(cs).batch>> \o Batches(Tail(cs))

RECURSIVE SuccessesOfReturnedCalls(_)
\* The records reported successful by the upload calls that returned.
SuccessesOfReturnedCalls(cs) ==
    IF cs = <<>> THEN 0
    ELSE (IF Head(cs).outcome = "transport" THEN 0
          ELSE Cardinality({k \in 1..Len(Head(cs).results) : Head(cs).results[k]}))
         + SuccessesOfReturnedCalls(Tail(cs))

\* C1: in an import with a positive batch size, once the batch loop has
\* run to its end uploaded_count + failed_count equals the number of input
\* records, and every upload call added to the two totals amounts that sum
\* to the size of its batch, whether the call returned or raised.
C1_EveryRecordCountedOnce ==
    pipeline = "import" =>
      /\ (BatchLoopDone /\ batch_size > 0)
            => uploaded_count + failed_count = Len(documents)
      /\ \A k \in 1..Len(calls) :
            calls[k].d_uploaded + calls[k].d_failed = Len(calls[k].batch)

\* C2: an upload call that raises a transport error adds its whole batch
\* to failed_count and nothing to uploaded_count; the loop still submits
\* every later chunk; and the value returned at line 109 is the number of
\* successes reported by the calls that did not raise.
C2_TransportErrorFailsWholeChunk ==
    pipeline = "import" =>
      /\ \A k \in 1..Len(calls) :
            calls[k].outcome = "transport"
              => /\ calls[k].d_failed = Len(calls[k].batch)
                 /\ calls[k].d_uploaded = 0
      /\ (BatchLoopDone /\ batch_size > 0 /\ documents # <<>>)
            => Len(calls) = Ceil(Len(documents), batch_size)
      /\ (pc = "returned" /\ documents # <<>>)
            => result = Some(SuccessesOfReturnedCalls(calls))

\* C2 witness: five records in batches of two (2500 in batches of 1000),
\* the second call raised and every other record succeeded: 3 succeeded,
\* 2 failed, three calls made.
C2_Witness ==
    /\ pipeline = "import" /\ pc = "returned"
    /\ Len(documents) = 5 /\ batch_size = 2 /\ ~merge_documents
    /\ Len(calls) = 3
    /\ calls[1].outcome = "ok" /\ calls[2].outcome = "transport"
    /\ calls[3].outcome = "ok"
    /\ result = Some(3) /\ uploaded_count = 3 /\ failed_count = 2

\* C3: with a positive batch size B the records handed to upload_documents
\* so far are, in call order, exactly the first records of the input, each
\* once; call k starts at record (k-1)*B; and when the loop has ended there
\* were ceil(S / B) calls, all of size B except possibly the last, whose
\* concatenation is the input.
C3_ContiguousChunksOnce ==
    (pipeline = "import" /\ batch_size > 0 /\ pc # "load") =>
      /\ \A k \in 1..Len(calls) :
            /\ calls[k].start = (k - 1) * batch_size
            /\ Len(calls[k].batch) >= 1
            /\ Len(calls[k].batch) <= batch_size
            /\ k < Len(calls) => Len(calls[k].batch) = batch_size
      /\ Concat(Batches(calls)) = FirstN(documents, SumLen(Batches(calls)))
      /\ (BatchLoopDone /\ documents # <<>>)
            => /\ Len(calls) = Ceil(Len(documents), batch_size)
               /\ Concat(Batches(calls)) = documents

\* C3 witness: five records, batch size two, three calls (2, 2, 1), the
\* first of which raised and was not submitted again.
C3_Witness ==
    /\ pipeline = "import" /\ pc = "returned"
    /\ Len(documents) = 5 /\ batch_size = 2
    /\ Len(calls) = 3
    /\ calls[1].outcome = "transport"
    /\ Len(calls[3].batch) = 1
    /\ Concat(Batches(calls)) = documents

\* C4: in an export with no top bound, when the pagination loop has ended
\* the accumulator holds as many records as the pages fetched together and
\* the last page fetched is shorter than page_size (possibly empty); the
\* snapshot written is that accumulator; and when the server fills every
\* page a collection of S records is fetched as S div page_size full pages
\* followed by one page of the remainder (1000, 1000, 500 for 2500).
C4_OutputIsSumOfPages ==
    (pipeline = "export" /\ top = None) =>
      /\ PageLoopDone
            => /\ pages # <<>>
               /\ Len(all_docs) = SumLen(pages)
               /\ Len(pages[Len(pages)]) < page_size
      /\ pc = "returned"
            => /\ snapshot # None
               /\ Len(snapshot[1]) = SumLen(pages)
               /\ result = Some(SumLen(pages))
      /\ (PageLoopDone /\ ~short_served)
            => /\ Len(pages) = (Len(collection) \div page_size) + 1
               /\ \A k \in 1..Len(pages) :
                     Len(pages[k]) =
                       Min(page_size, Len(collection) - (k - 1) * page_size)

\* C4 witness: a collection of two and a half pages written in full after
\* pages of page_size, page_size and the remainder.
C4_Witness ==
    /\ pipeline = "export" /\ top = None /\ pc = "returned"
    /\ ~short_served
    /\ Len(collection) = 2 * page_size + 1
    /\ Len(pages) = 3
    /\ Len(pages[1]) = page_size /\ Len(pages[2]) = page_size
    /\ Len(pages[3]) = 1
    /\ Len(snapshot[1]) = Len(collection)

\* C5: an export called with top = N on a collection of at least N records,
\* served in full pages, that writes its snapshot writes exactly the first
\* N records of the collection.
C5_TopExact ==
    (/\ pipeline = "export" /\ pc = "returned"
     /\ top # None /\ ~short_served
     /\ Len(collection) >= top[1])
      => snapshot = Some(FirstN(collection, top[1]))

\* C6 as stated: after every page skip equals the length of the accumulator
\* and the accumulator is the first skip records of the collection; with
\* no top bound the accumulator is the whole collection when the loop ends,
\* whatever the sizes of the pages served.
C6_AsStated ==
    pipeline = "export" =>
      /\ skip = Len(all_docs)
      /\ all_docs = FirstN(collection, skip)
      /\ (PageLoopDone /\ top = None) => all_docs = collection

\* C6 amended: skip is the number of records returned so far and the pages
\* returned are, joined in order, the first skip records of the collection
\* (none skipped, none twice); the accumulator is those records, cut to its
\* first top records once the top bound has been reached; with no top
\* bound the accumulator at the end of the loop is the whole collection
\* when the server filled every page, and a proper prefix of it when a
\* page came back shorter than the server could fill.
C6_CursorCountsReturnedRecords ==
    pipeline = "export" =>
      LET fetched == Concat(pages)
      IN  /\ skip = SumLen(pages)
          /\ fetched = FirstN(collection, skip)
          /\ IF pc = "page" \/ ~TopReached(top, fetched)
             THEN all_docs = fetched
             ELSE IF PageLoopDone
             THEN all_docs = FirstN(fetched, top[1])
             ELSE all_docs \in {fetched, FirstN(fetched, top[1])}
          /\ (PageLoopDone /\ top = None /\ ~short_served)
                => all_docs = collection
          /\ (PageLoopDone /\ top = None /\ short_served)
                => /\ all_docs = FirstN(collection, skip)
                   /\ skip < Len(collection)

\* C6 witness: no top bound, a full page, then a page shorter than the
\* server could fill: the loop ended and the snapshot lacks records.
C6_Witness ==
    /\ pipeline = "export" /\ top = None /\ pc = "returned"
    /\ Len(pages) = 2
    /\ Len(pages[1]) = page_size
    /\ pages[2] # <<>>
    /\ short_served
    /\ skip = Len(all_docs)
    /\ Len(all_docs) < Len(collection)

\* C7: when a search call of an export raises (the count probe or a page
\* request), the export returns 0, the output file has not been opened or
\* written, and the write step can no longer happen.
C7_TransportErrorWritesNothing ==
    (pipeline = "export" /\ error = "transport") =>
      /\ pc = "error"
      /\ result = Some(0)
      /\ ~file_opened
      /\ snapshot = None
      /\ ~ENABLED ExportWrite

\* C7 witness: a page request raised after two full pages were accumulated.
C7_Witness ==
    /\ pipeline = "export" /\ error = "transport"
    /\ Len(all_docs) = 2 * page_size
    /\ Len(requests) = 3
    /\ result = Some(0)
    /\ ~file_opened

\* C8: an import whose snapshot loads as an empty sequence has returned 0
\* by the return statement of line 58, with no upload call made and both
\* totals 0.
C8_EmptyInputIsNoOp ==
    (pipeline = "import" /\ input_file = <<>>) =>
      /\ calls = <<>>
      /\ uploaded_count = 0
      /\ failed_count = 0
      /\ (pc # "load" /\ error = "none")
            => /\ pc = "returned"
               /\ result = Some(0)

\* C8 witness: the empty snapshot was loaded and the import has returned.
C8_Witness ==
    /\ pipeline = "import" /\ input_file = <<>>
    /\ pc = "returned" /\ error = "none"
    /\ result = Some(0)
    /\ calls = <<>>

\* C9: an input/output error ends the run with the value 0: an import
\* whose snapshot cannot be read or parsed has made no upload call, an
\* export whose destination cannot be written returns 0; and neither
\* function ever ends without a numeric return value (every exception
\* ends in the outer except).
C9_IOErrorReturnsZero ==
    /\ error = "io" => (pc = "error" /\ result = Some(0))
    /\ (pipeline = "import" /\ error = "io")
          => (calls = <<>> /\ documents = <<>>)
    /\ Ended <=> result # None
    /\ result # None => result[1] \in Nat
    /\ ~Ended => ENABLED Next

\* C9 witness: the destination of an export that had accumulated records
\* could not be written and 0 was returned.
C9_Witness ==
    /\ pipeline = "export" /\ error = "io"
    /\ all_docs # <<>>
    /\ result = Some(0)

\* C10: a progress-bar call that raises neither aborts the run nor changes
\* its result: an export in which one raised (and no search call or write
\* failed) has written its accumulator and returned its length; an import
\* in which one raised has counted every submitted record once and, with a
\* positive batch size, has submitted the whole input and returned by
\* line 109.
C10_RenderFailureHarmless ==
    /\ (pipeline = "export" /\ render_failed /\ Ended
          /\ error \notin {"transport", "io"})
          => /\ pc = "returned"
             /\ snapshot = Some(all_docs)
             /\ result = Some(Len(all_docs))
    /\ (pipeline = "import" /\ render_failed)
          => /\ uploaded_count + failed_count = SumLen(Batches(calls))
             /\ (Ended /\ batch_size > 0)
                   => /\ pc = "returned"
                      /\ Concat(Batches(calls)) = documents

\* What a run with show_progress = FALSE holds in all_docs once its loop has
\* ended, given the pages the server returned.
SilentAccumulator(ps, t) ==
    IF TopReached(t, Concat(ps)) THEN Truncate(Concat(ps), t) ELSE Concat(ps)

RECURSIVE SilentFailed(_)
\* What a run with show_progress = FALSE holds in failed_count after these
\* upload calls: the whole batch of a call that raised, the records
\* reported failed of a call that returned.
SilentFailed(cs) ==
    IF cs = <<>> THEN 0
    ELSE (IF Head(cs).outcome = "transport" THEN Len(Head(cs).batch)
          ELSE FailCount(Head(cs).results))
         + SilentFailed(Tail(cs))

\* C11: a run behaves as the run with show_progress = FALSE does against
\* the same transport behaviour: an export in which no search call and no
\* file operation failed writes the accumulator of the silent run and
\* returns its length; an import holds the counters of the silent run after
\* every call and, when neither the load nor range() failed, returns
\* uploaded_count by line 109.
C11_ShownRunEqualsSilentRun ==
    /\ (pipeline = "export" /\ Ended /\ error \notin {"transport", "io"})
          => /\ pc = "returned"
             /\ snapshot = Some(SilentAccumulator(pages, top))
             /\ result = Some(Len(SilentAccumulator(pages, top)))
    /\ pipeline = "import"
          => /\ uploaded_count = SuccessesOfReturnedCalls(calls)
             /\ failed_count = SilentFailed(calls)
             /\ (Ended /\ error \notin {"io", "value"})
                   => /\ pc = "returned"
                      /\ result = Some(uploaded_count)

\* What an export with this top writes for this collection when the
\* server fills every page: the collection, or its first top records.
ExpectedExport(coll, t) ==
    IF Truthy(t) THEN FirstN(coll, Min(t[1], Len(coll))) ELSE coll

\* C12: the record sequence an export writes, and the value it returns,
\* are determined by the collection and the parameters alone, so two
\* exports of the same immutable collection with the same parameters write
\* the same sequence: every request's cursor is the number of records
\* returned before it, the snapshot is a function of top and the pages
\* returned, and with a server that fills its pages the pages are the
\* successive page_size slices of the collection and the snapshot is the
\* collection cut to top, whatever show_progress is.
C12_OutputDeterminedByParameters ==
    pipeline = "export" =>
      /\ \A k \in 1..Len(requests) :
            requests[k].skip = SumLen(SubSeq(pages, 1, k - 1))
      /\ ~short_served
            => \A k \in 1..Len(pages) :
                 pages[k] = FullPage((k - 1) * page_size)
      /\ pc = "returned"
            => /\ snapshot = Some(SilentAccumulator(pages, top))
               /\ result = Some(Len(snapshot[1]))
      /\ (pc = "returned" /\ ~short_served)
            => snapshot = Some(ExpectedExport(collection, top))

\* C12 witness: an export with a progress bar and a top bound inside the
\* second page has written the first top records.
C12_Witness ==
    /\ pipeline = "export" /\ pc = "returned"
    /\ show_progress /\ pbar = "tqdm"
    /\ ~short_served
    /\ top = Some(page_size + 1)
    /\ Len(collection) = 2 * page_size + 1
    /\ snapshot = Some(FirstN(collection, page_size + 1))
    /\ result = Some(page_size + 1)

\* C13: in an import with a progress bar whose calls all return, the bar's
\* counter is the number of records submitted so far, calls that raised
\* included, and equals the number of input records once the batch loop
\* has ended (positive batch size).
C13_ProgressAdvancesEveryChunk ==
    (pipeline = "import" /\ pbar = "tqdm" /\ ~render_failed) =>
      /\ pbar_n = SumLen(Batches(calls))
      /\ (BatchLoopDone /\ batch_size > 0) => pbar_n = Len(documents)

\* The ceiling total_docs is the true number of records to process: for
\* the import always, for the export when the count probe reported the
\* number of matching records.
CeilingAccurate ==
    pipeline = "import" \/ index_count = Len(collection)

\* C14: no step decreases the progress bar's counter, and after every step
\* the counter of an existing bar whose ceiling is accurate is at most
\* that ceiling (export: min(count, top) when top is set, else count;
\* import: the number of loaded records).
C14_ProgressWithinCeiling ==
    [][/\ pbar_n' >= pbar_n
       /\ (pbar' = "tqdm" /\ CeilingAccurate') => pbar_n' <= total_docs']_vars

\* C15: every page request asks for page_size records at the cursor
\* reached by the pages returned before it, with the select and filter
\* options of the call, whatever top is; top never changes a request, it
\* only cuts the accumulator, and only once the loop has been left.
C15_RequestsUseFixedPageSize ==
    pipeline = "export" =>
      /\ \A k \in 1..Len(requests) :
            /\ requests[k].top = page_size
            /\ requests[k].skip = Len(Concat(SubSeq(pages, 1, k - 1)))
            /\ requests[k].select = select_fields
            /\ requests[k].filter = filter_expression
            /\ requests[k].select = requests[1].select
            /\ requests[k].filter = requests[1].filter
      /\ all_docs # Concat(pages)
            => /\ pc # "page"
               /\ top # None
               /\ all_docs = FirstN(Concat(pages), top[1])

\* C15 witness: a top bound smaller than the page size, select and filter
\* given: one request of a full page was made and one record written.
C15_Witness ==
    /\ pipeline = "export" /\ pc = "returned"
    /\ top = Some(1) /\ select_fields /\ filter_expression
    /\ Len(requests) = 1
    /\ requests[1].top = page_size
    /\ Len(pages[1]) = page_size
    /\ Len(snapshot[1]) = 1

\* The stop conditions of the claim for the k-th page returned: (a) it is
\* empty, (b) top is set (neither None nor 0) and the records returned so
\* far number at least top, (c) it is shorter than page_size.
StopsAfterPage(k) ==
    \/ pages[k] = <<>>
    \/ (top # None /\ top[1] # 0
          /\ Len(Concat(SubSeq(pages, 1, k))) >= top[1])
    \/ Len(pages[k]) < page_size

C17_RunsTerminate ==
    /\ (pipeline = "export" \/ batch_size > 0) ~> (Ended /\ result # None)
    /\ []((pipeline = "export" /\ ~short_served)
            => Len(requests) <= (Len(collection) \div page_size) + 1)

\* C17 witness: a collection of exactly two pages took three requests (the
\* third returned nothing) and the export has ended.
C17_Witness ==
    /\ pipeline = "export" /\ Ended /\ top = None
    /\ ~short_served
    /\ Len(collection) = 2 * page_size
    /\ Len(requests) = 3
    /\ Len(pages) = 3
    /\ pages[3] = <<>>

\* C18: the step that opens the output file is taken after the pagination
\* loop has been left on a terminal page, makes no request and leaves the
\* accumulator alone; when it dumps, it dumps the whole accumulator and
\* returns its length; and once the file has been opened the run takes no
\* further step (no second write, no page request).
C18_SnapshotWrittenOnceAfterLoop ==
    [][/\ (file_opened' /\ ~file_opened)
            => /\ pc = "write"
               /\ pages # <<>>
               /\ StopsAfterPage(Len(pages))
               /\ UNCHANGED <<requests, pages, all_docs>>
               /\ snapshot' # None
                     => /\ snapshot' = Some(all_docs)
                        /\ result' = Some(Len(all_docs))
                        /\ pc' = "returned"
       /\ snapshot' # None => file_opened'
       /\ file_opened => UNCHANGED vars]_vars

\* C18 witness: after two full pages and a truncation at top the snapshot
\* was written and its length, not the cursor, returned.
C18_Witness ==
    /\ pipeline = "export" /\ pc = "returned"
    /\ Len(pages) = 2
    /\ Len(requests) = 2
    /\ top = Some(page_size + 1)
    /\ skip = 2 * page_size
    /\ file_opened
    /\ snapshot = Some(all_docs)
    /\ result = Some(page_size + 1)

C20_NonPositiveBatchSizeUploadsNothing ==
    (pipeline = "import" /\ batch_size <= 0 /\ input_file # <<>>) =>
      /\ calls = <<>>
      /\ uploaded_count = 0
      /\ failed_count = 0
      /\ pc # "batch"
      /\ Ended => result = Some(0)
      /\ batch_size = 0
            => /\ pc \notin {"close", "report", "returned"}
               /\ (pc = "error" /\ error \notin {"io", "render"})
                     => error = "value"
      /\ batch_size < 0
            => /\ error # "value"
               /\ (error = "none" /\ pc \notin {"load", "progress", "range"})
                     => /\ pc \in {"close", "report", "returned"}
                        /\ documents = input_file
                        /\ total_docs = Len(input_file)

\* C20 witness, batch_size < 0: records were loaded and the import
\* returned normally with 0 and no upload call.
C20_Witness ==
    /\ pipeline = "import" /\ batch_size < 0 /\ pc = "returned"
    /\ Len(documents) = MaxDocs /\ total_docs = MaxDocs
    /\ error = "none" /\ calls = <<>>
    /\ result = Some(0) /\ failed_count = 0

====
